---------------------------- MODULE Spec2Model ----------------------------
(***************************************************************************)
(* Model of the chat backend: the pydantic schema ChatRequest (schemas.py), *)
(* the /api/chat handler `chat` (main.py) running on the asyncio event     *)
(* loop, and the manual validator behind /chat/v2                          *)
(* (validation_examples.py).  Strings are sequences of one-character       *)
(* tokens; time is an integer number of clock ticks.                       *)
(***************************************************************************)
EXTENDS Integers, Sequences, FiniteSets, TLC

VARIABLES now, pc, body, request, locals, response, bot_responses

vars == <<now, pc, body, request, locals, response, bot_responses>>

---------------------------------------------------------------------------
(* Bounds of the model.                                                    *)

\* number of client requests in a concurrent run
NumReq == 2
\* the latest half second at which a request is posted
MaxArrival == 1
\* clock ticks in one millisecond: the resolution of time.time() and of the
\* delay below the 3 decimals round() keeps
TicksPerMs == 3
\* number of word fragments a short input message is built from
MaxWords == 2

Req == 1..NumReq

---------------------------------------------------------------------------
(* Characters and the str methods the code uses.                           *)

\* one token per emoji (one code point each: len() counts it as 1)
EMOJI == "U+1F60A"
WAVE == "U+1F44B"

Whitespace == {" ", "\t", "\n"}
UPPER ==
  <<"A", "B", "C", "D", "E", "F", "G", "H", "I", "J", "K", "L", "M", "N",
    "O", "P", "Q", "R", "S", "T", "U", "V", "W", "X", "Y", "Z", "Á", "É",
    "Ó", "Ê">>
LOWER ==
  <<"a", "b", "c", "d", "e", "f", "g", "h", "i", "j", "k", "l", "m", "n",
    "o", "p", "q", "r", "s", "t", "u", "v", "w", "x", "y", "z", "á", "é",
    "ó", "ê">>
DigitChars == {"0", "1", "2", "3", "4", "5", "6", "7", "8", "9"}
Letters == {UPPER[i] : i \in 1..Len(UPPER)} \cup {LOWER[i] : i \in 1..Len(LOWER)}

\* str.isspace() of one character
isspace(c) == c \in Whitespace

\* str.isalnum() of one character: letters and digits, not punctuation,
\* whitespace or emoji
isalnum(c) == c \in Letters \cup DigitChars

\* the lower-case form of each upper-case letter
LowerOf ==
  [c \in {UPPER[i] : i \in 1..Len(UPPER)} |->
     LOWER[CHOOSE i \in 1..Len(UPPER) : UPPER[i] = c]]

\* str.lower() of one character
lower_char(c) == IF c \in DOMAIN LowerOf THEN LowerOf[c] ELSE c

\* str.lower()
lower(s) == [i \in 1..Len(s) |-> lower_char(s[i])]

\* a strip() that also drops the whitespace inside the string
strip_all_whitespace(s) ==
  LET kept(c) == ~isspace(c) IN SelectSeq(s, kept)

\* str.strip(): drops the leading and the trailing whitespace only
strip(s) ==
  IF \A i \in 1..Len(s) : isspace(s[i]) THEN <<>>
  ELSE LET first == CHOOSE i \in 1..Len(s) :
                      ~isspace(s[i]) /\ \A j \in 1..(i - 1) : isspace(s[j])
           last  == CHOOSE i \in 1..Len(s) :
                      ~isspace(s[i]) /\ \A j \in (i + 1)..Len(s) : isspace(s[j])
       IN  SubSeq(s, first, last)

\* `sub in s` for strings
contains(s, sub) ==
  \E i \in 1..(Len(s) - Len(sub) + 1) : SubSeq(s, i, i + Len(sub) - 1) = sub

\* any(c.isalnum() for c in v)
any_isalnum(v) == \E i \in 1..Len(v) : isalnum(v[i])

\* c * n
Rep(c, n) == [i \in 1..n |-> c]

---------------------------------------------------------------------------
(* schemas.py: ChatRequest.                                                *)

\* Field(min_length=1, max_length=1000)
min_length == 1
max_length == 1000

\* the error kinds a ChatRequest can fail with
MissingField == "missing"
TooShort == "string_too_short"
TooLong == "string_too_long"
EmptyMessage == "Mensagem não pode estar vazia ou conter apenas espaços"
NoAlphanumericContent ==
  "Mensagem deve conter pelo menos um caractere alfanumérico"

Valid(v, uid) == [ok |-> TRUE, error |-> "", message |-> v, user_id |-> uid]
Invalid(e) == [ok |-> FALSE, error |-> e, message |-> <<>>, user_id |-> <<>>]

\* a validator that forgets v = v.strip()
validate_message_no_strip(raw, uid) ==
  IF strip(raw) = <<>> THEN Invalid(EmptyMessage)
  ELSE IF ~any_isalnum(raw) THEN Invalid(NoAlphanumericContent)
  ELSE Valid(raw, uid)

\* a validator without the `if not v` check
validate_message_no_empty_check(raw, uid) ==
  IF ~any_isalnum(strip(raw)) THEN Invalid(NoAlphanumericContent)
  ELSE Valid(strip(raw), uid)

\* a validator without the isalnum check
validate_message_no_alnum_check(raw, uid) ==
  IF strip(raw) = <<>> THEN Invalid(EmptyMessage)
  ELSE Valid(strip(raw), uid)

\* @field_validator('message'): runs on a value that passed the Field
\* constraints (the default mode of field_validator is "after")
validate_message(raw, uid) ==
  LET v == strip(raw)
  IN  IF v = <<>> THEN Invalid(EmptyMessage)
      ELSE IF ~any_isalnum(v) THEN Invalid(NoAlphanumericContent)
      ELSE Valid(v, uid)

\* length constraints applied to the trimmed string instead of the raw one
field_constraints_trimmed(raw) ==
  IF Len(raw) < min_length THEN TooShort
  ELSE IF Len(strip(raw)) > max_length THEN TooLong
  ELSE ""

\* the constraints of Field(..., min_length, max_length) on the raw string
field_constraints(raw) ==
  IF Len(raw) < min_length THEN TooShort
  ELSE IF Len(raw) > max_length THEN TooLong
  ELSE ""

\* ChatRequest(**b): required field, then the Field constraints on the raw
\* value, then the field validator
ChatRequest(b) ==
  IF ~b.has_message THEN Invalid(MissingField)
  ELSE IF field_constraints(b.message) # ""
    THEN Invalid(field_constraints(b.message))
  ELSE validate_message(b.message, b.user_id)

---------------------------------------------------------------------------
(* main.py: the reply pool and the fixed replies.                          *)

\* BOT_RESPONSES (main.py lines 35-44)
BOT_RESPONSES ==
  <<
    <<"I", "n", "t", "e", "r", "e", "s", "s", "a", "n", "t", "e", "!", " ",
      "M", "e", " ", "c", "o", "n", "t", "e", " ", "m", "a", "i", "s", " ",
      "s", "o", "b", "r", "e", " ", "i", "s", "s", "o", ".">>,
    <<"E", "n", "t", "e", "n", "d", "o", " ", "o", " ", "q", "u", "e", " ",
      "v", "o", "c", "ê", " ", "e", "s", "t", "á", " ", "d", "i", "z", "e",
      "n", "d", "o", ".">>,
    <<"I", "s", "s", "o", " ", "é", " ", "m", "u", "i", "t", "o", " ", "l",
      "e", "g", "a", "l", "!", " ", "C", "o", "n", "t", "i", "n", "u", "e",
      ".", ".", ".">>,
    <<"H", "m", "m", ",", " ", "d", "e", "i", "x", "e", "-", "m", "e", " ",
      "p", "e", "n", "s", "a", "r", " ", "s", "o", "b", "r", "e", " ", "i",
      "s", "s", "o", ".", ".", ".">>,
    <<"Ó", "t", "i", "m", "a", " ", "p", "e", "r", "g", "u", "n", "t", "a",
      "!", " ", "A", "q", "u", "i", " ", "e", "s", "t", "á", " ", "o", " ",
      "q", "u", "e", " ", "p", "e", "n", "s", "o", ":">>,
    <<"P", "o", "s", "s", "o", " ", "a", "j", "u", "d", "a", "r", " ", "v",
      "o", "c", "ê", " ", "c", "o", "m", " ", "i", "s", "s", "o", "!">>,
    <<"I", "s", "s", "o", " ", "m", "e", " ", "l", "e", "m", "b", "r", "a",
      " ", "d", "e", " ", "a", "l", "g", "o", " ", "i", "m", "p", "o", "r",
      "t", "a", "n", "t", "e", ".">>,
    <<"V", "a", "m", "o", "s", " ", "e", "x", "p", "l", "o", "r", "a", "r",
      " ", "e", "s", "s", "a", " ", "i", "d", "e", "i", "a", " ", "j", "u",
      "n", "t", "o", "s", "!">>
  >>

\* main.py line 98
GREETING_REPLY ==
  <<"O", "l", "á", "!", " ", "C", "o", "m", "o", " ", "p", "o", "s", "s",
    "o", " ", "a", "j", "u", "d", "a", "r", " ", "v", "o", "c", "ê", " ",
    "h", "o", "j", "e", "?", " ", EMOJI>>

\* main.py line 100
WELLBEING_REPLY ==
  <<"E", "s", "t", "o", "u", " ", "m", "u", "i", "t", "o", " ", "b", "e",
    "m", ",", " ", "o", "b", "r", "i", "g", "a", "d", "o", " ", "p", "o",
    "r", " ", "p", "e", "r", "g", "u", "n", "t", "a", "r", "!", " ", "E",
    " ", "v", "o", "c", "ê", ",", " ", "c", "o", "m", "o", " ", "e", "s",
    "t", "á", "?">>

\* main.py line 102
FAREWELL_REPLY ==
  <<"A", "t", "é", " ", "l", "o", "g", "o", "!", " ", "F", "o", "i", " ",
    "u", "m", " ", "p", "r", "a", "z", "e", "r", " ", "c", "o", "n", "v",
    "e", "r", "s", "a", "r", " ", "c", "o", "m", " ", "v", "o", "c", "ê",
    "!", " ", WAVE>>

\* main.py line 104
HELP_REPLY ==
  <<"C", "l", "a", "r", "o", "!", " ", "E", "s", "t", "o", "u", " ", "a",
    "q", "u", "i", " ", "p", "a", "r", "a", " ", "a", "j", "u", "d", "a",
    "r", ".", " ", "O", " ", "q", "u", "e", " ", "v", "o", "c", "ê", " ",
    "p", "r", "e", "c", "i", "s", "a", "?">>

\* main.py line 106, the f-string before {message}
QUESTION_PREFIX ==
  <<"B", "o", "a", " ", "p", "e", "r", "g", "u", "n", "t", "a", "!", " ",
    "S", "o", "b", "r", "e", " ", "\"">>

\* main.py line 106, the f-string after {message}
QUESTION_SUFFIX ==
  <<"\"", ",", " ", "e", "u", " ", "d", "i", "r", "i", "a", " ", "q", "u",
    "e", " ", "é", " ", "u", "m", " ", "t", "ó", "p", "i", "c", "o", " ",
    "i", "n", "t", "e", "r", "e", "s", "s", "a", "n", "t", "e", " ", "p",
    "a", "r", "a", " ", "e", "x", "p", "l", "o", "r", "a", "r", "m", "o",
    "s", ".">>
\* the rules of the ladder, on the lower-cased message (lines 97-105)
is_greeting(message_lower) ==
  contains(message_lower, <<"o", "l", "á">>) \/ contains(message_lower, <<"o", "i">>)
is_wellbeing(message_lower) ==
  contains(message_lower, <<"c", "o", "m", "o", " ", "v", "a", "i">>)
is_farewell(message_lower) ==
  \/ contains(message_lower, <<"t", "c", "h", "a", "u">>)
  \/ contains(message_lower, <<"a", "d", "e", "u", "s">>)
is_help(message_lower) == contains(message_lower, <<"a", "j", "u", "d", "a">>)
is_question(message) == contains(message, <<"?">>)

\* a question reply that embeds the lower-cased message
question_reply_lower(message) ==
  QUESTION_PREFIX \o lower(message) \o QUESTION_SUFFIX

\* f'Boa pergunta! Sobre "{message}", eu diria que ...'
question_reply(message) == QUESTION_PREFIX \o message \o QUESTION_SUFFIX

\* a ladder that tests "?" before the keywords
select_reply_question_first(message, message_lower, drawn) ==
  IF is_question(message) THEN question_reply(message)
  ELSE IF is_greeting(message_lower) THEN GREETING_REPLY
  ELSE IF is_wellbeing(message_lower) THEN WELLBEING_REPLY
  ELSE IF is_farewell(message_lower) THEN FAREWELL_REPLY
  ELSE IF is_help(message_lower) THEN HELP_REPLY
  ELSE drawn

\* lines 94-106: reply = random.choice(BOT_RESPONSES), then the if/elif
\* ladder overwrites it; `drawn` is the string random.choice returned
select_reply(message, message_lower, drawn) ==
  IF is_greeting(message_lower) THEN GREETING_REPLY
  ELSE IF is_wellbeing(message_lower) THEN WELLBEING_REPLY
  ELSE IF is_farewell(message_lower) THEN FAREWELL_REPLY
  ELSE IF is_help(message_lower) THEN HELP_REPLY
  ELSE IF is_question(message) THEN question_reply(message)
  ELSE drawn

---------------------------------------------------------------------------
(* Time.  time.time() and the delay are counted in clock ticks, TicksPerMs  *)
(* of them in a millisecond.                                               *)

\* milliseconds in 0.5 s
HALF_SECOND_MS == 500

\* 0.5 (line 90), in ticks
half_second == HALF_SECOND_MS * TicksPerMs

\* random.random() is in [0, 1) s: a whole number of ticks below one second
RandomTicks == 0..(2 * half_second - 1)

\* the longest delay line 90 can draw
MaxDelay == half_second + 2 * half_second - 1

\* the clock horizon: every request posted by MaxArrival can end its delay
MaxTime == MaxArrival * half_second + MaxDelay

\* a time.time() difference truncated to whole milliseconds
round3_truncated(ticks) == ticks \div TicksPerMs

\* round(processing_time, 3): seconds rounded to the nearest of 3 decimals,
\* kept as a whole number of milliseconds
round3(ticks) == (2 * ticks + TicksPerMs) \div (2 * TicksPerMs)

\* datetime.utcnow().isoformat(): the clock reading as text
isoformat(t) == <<"T", ToString(t)>>

---------------------------------------------------------------------------
(* The requests.                                                           *)

\* a JSON body without the message field, and one with it
NoMessage == [has_message |-> FALSE, message |-> <<>>, user_id |-> <<>>]
Body(m, uid) == [has_message |-> TRUE, message |-> m, user_id |-> uid]

NoRequest == [message |-> <<>>, user_id |-> <<>>]
NoLocals == [start_time |-> 0, message |-> <<>>, message_lower |-> <<>>, delay |-> 0]
\* no answer yet; message_length and processing_time are Optional fields:
\* <<>> is None and <<x>> is the value x
NoResponse ==
  [status |-> 0, detail |-> "", reply |-> <<>>, timestamp |-> <<>>,
   message_length |-> <<>>, processing_time |-> <<>>]

\* the 422 answer FastAPI gives for a body that is no ChatRequest
ValidationErrorResponse(e) ==
  [status |-> 422, detail |-> e, reply |-> <<>>, timestamp |-> <<>>,
   message_length |-> <<>>, processing_time |-> <<>>]

\* a response whose timestamp lacks the trailing "Z"
ChatResponse_no_Z(reply, t, message, processing_time) ==
  [status |-> 200, detail |-> "", reply |-> reply,
   timestamp |-> isoformat(t),
   message_length |-> <<Len(message)>>,
   processing_time |-> <<round3(processing_time)>>]

\* a response that reports len(reply) as message_length
ChatResponse_reply_length(reply, t, message, processing_time) ==
  [status |-> 200, detail |-> "", reply |-> reply,
   timestamp |-> isoformat(t) \o <<"Z">>,
   message_length |-> <<Len(reply)>>,
   processing_time |-> <<round3(processing_time)>>]

\* ChatResponse(...) (lines 114-119), answered with status 200
ChatResponse(reply, t, message, processing_time) ==
  [status |-> 200, detail |-> "", reply |-> reply,
   timestamp |-> isoformat(t) \o <<"Z">>,
   message_length |-> <<Len(message)>>,
   processing_time |-> <<round3(processing_time)>>]

\* a blocking time.sleep(delay): the event loop is held while r sleeps
blocking_sleep_holds_loop(r) == TRUE

\* await asyncio.sleep(delay) (line 91): the coroutine is suspended and the
\* event loop is free to run other requests while r sleeps
sleep_holds_loop(r) == FALSE

\* the event loop can run a step of request r
LoopFree(r) == \A q \in Req \ {r} : ~(pc[q] = "sleeping" /\ sleep_holds_loop(q))

Init ==
  /\ now = 0
  /\ pc = [r \in Req |-> "idle"]
  /\ body = [r \in Req |-> NoMessage]
  /\ request = [r \in Req |-> NoRequest]
  /\ locals = [r \in Req |-> NoLocals]
  /\ response = [r \in Req |-> NoResponse]
  /\ bot_responses = BOT_RESPONSES

\* POST /api/chat with a body b of B that fails ChatRequest: FastAPI answers
\* 422 and chat() is not called
PostRejected(r, B) ==
  /\ pc[r] = "idle"
  /\ LoopFree(r)
  /\ now <= MaxArrival * half_second
  /\ \E b \in B :
       LET v == ChatRequest(b)
       IN  /\ ~v.ok
           /\ response' = [response EXCEPT ![r] = ValidationErrorResponse(v.error)]
           /\ body' = [body EXCEPT ![r] = b]
  /\ pc' = [pc EXCEPT ![r] = "done"]
  /\ UNCHANGED <<now, request, locals, bot_responses>>

\* a handler entered without validation (a dict parameter, not a ChatRequest)
PostAccepted_unvalidated(r, B, D) ==
  /\ pc[r] = "idle"
  /\ LoopFree(r)
  /\ now <= MaxArrival * half_second
  /\ \E b \in B, rnd \in D :
       /\ request' = [request EXCEPT ![r] =
                        [message |-> b.message, user_id |-> b.user_id]]
       /\ locals' = [locals EXCEPT ![r] =
                       [start_time |-> now,
                        message |-> b.message,
                        message_lower |-> lower(b.message),
                        delay |-> half_second + rnd]]
       /\ body' = [body EXCEPT ![r] = b]
  /\ pc' = [pc EXCEPT ![r] = "sleeping"]
  /\ UNCHANGED <<now, response, bot_responses>>

\* POST /api/chat with a valid body b of B: chat(request) runs up to its
\* await (lines 80-91); rnd, one of D, is what random.random() returned
PostAccepted(r, B, D) ==
  /\ pc[r] = "idle"
  /\ LoopFree(r)
  /\ now <= MaxArrival * half_second
  /\ \E b \in B, rnd \in D :
       LET v == ChatRequest(b)
       IN  /\ v.ok
           /\ request' = [request EXCEPT ![r] =
                            [message |-> v.message, user_id |-> v.user_id]]
           /\ locals' = [locals EXCEPT ![r] =
                           [start_time |-> now,
                            message |-> v.message,
                            message_lower |-> lower(v.message),
                            delay |-> half_second + rnd]]
           /\ body' = [body EXCEPT ![r] = b]
  /\ pc' = [pc EXCEPT ![r] = "sleeping"]
  /\ UNCHANGED <<now, response, bot_responses>>

\* the wall clock advances to a later instant of T
Tick(T) ==
  /\ \E t \in T :
       /\ now < t
       /\ t <= MaxTime
       /\ now' = t
  /\ UNCHANGED <<pc, body, request, locals, response, bot_responses>>

\* asyncio.sleep(delay) called without await: chat() does not wait for the
\* delay to pass
ChatResume_no_await(r) ==
  /\ pc[r] = "sleeping"
  /\ LoopFree(r)
  /\ \E choice \in 1..Len(bot_responses) :
       LET reply == select_reply(locals[r].message, locals[r].message_lower,
                                 bot_responses[choice])
           processing_time == now - locals[r].start_time
       IN  response' = [response EXCEPT ![r] =
                          ChatResponse(reply, now, locals[r].message, processing_time)]
  /\ locals' = [locals EXCEPT ![r] = NoLocals]
  /\ pc' = [pc EXCEPT ![r] = "done"]
  /\ UNCHANGED <<now, body, request, bot_responses>>

\* a handler that keeps message and message_lower in module-level globals:
\* after the sleep it reads what the request that entered last, q, wrote
ChatResume_shared_message(r) ==
  /\ pc[r] = "sleeping"
  /\ LoopFree(r)
  /\ now >= locals[r].start_time + locals[r].delay
  /\ \E choice \in 1..Len(bot_responses), q \in Req :
       /\ pc[q] = "sleeping"
       /\ LET reply == select_reply(locals[q].message, locals[q].message_lower,
                                    bot_responses[choice])
              processing_time == now - locals[r].start_time
          IN  response' = [response EXCEPT ![r] =
                             ChatResponse(reply, now, locals[q].message, processing_time)]
  /\ locals' = [locals EXCEPT ![r] = NoLocals]
  /\ pc' = [pc EXCEPT ![r] = "done"]
  /\ UNCHANGED <<now, body, request, bot_responses>>

\* the sleep is over: chat() runs from line 94 to its return;
\* choice is the index random.choice(BOT_RESPONSES) drew
ChatResume(r) ==
  /\ pc[r] = "sleeping"
  /\ LoopFree(r)
  /\ now >= locals[r].start_time + locals[r].delay
  /\ \E choice \in 1..Len(bot_responses) :
       LET reply == select_reply(locals[r].message, locals[r].message_lower,
                                 bot_responses[choice])
           processing_time == now - locals[r].start_time
       IN  response' = [response EXCEPT ![r] =
                          ChatResponse(reply, now, locals[r].message, processing_time)]
  /\ locals' = [locals EXCEPT ![r] = NoLocals]
  /\ pc' = [pc EXCEPT ![r] = "done"]
  /\ UNCHANGED <<now, body, request, bot_responses>>

---------------------------------------------------------------------------
(* The inputs the clients send.                                            *)

\* word fragments: one per rule of the ladder, in mixed case, plus
\* punctuation, whitespace and a plain alphanumeric word
Words ==
  { <<"o", "i">>, <<"O", "l", "á">>, <<"C", "o", "m", "o", " ", "v", "a", "i">>,
    <<"t", "c", "h", "a", "u">>, <<"a", "d", "e", "u", "s">>,
    <<"A", "J", "U", "D", "A">>, <<"?">>, <<"!">>, <<" ">>, <<"X", "7">> }

RECURSIVE WordSeqs(_)
\* the concatenations of at most n words
WordSeqs(n) ==
  IF n = 0 THEN {<<>>}
  ELSE LET shorter == WordSeqs(n - 1)
       IN  shorter \cup {m \o w : m \in shorter, w \in Words}

LeadPads == {<<>>, <<"\n", " ">>}
TrailPads == {<<>>, <<" ", "\t">>}

\* short messages, with and without surrounding whitespace
ShortMessages ==
  {l \o m \o t : l \in LeadPads, m \in WordSeqs(MaxWords), t \in TrailPads}

\* messages at and around the length limit
LongMessages ==
  { Rep("a", max_length), Rep("a", max_length + 1),
    Rep("!", max_length), Rep("!", max_length + 1),
    Rep(" ", max_length), Rep(" ", max_length + 1),
    <<" ">> \o Rep("a", max_length - 1),
    <<" ">> \o Rep("a", max_length - 1) \o <<" ">>,
    <<" ">> \o Rep("a", max_length) \o <<" ">>,
    <<"a">> \o Rep(" ", max_length),
    <<"?">> \o Rep("B", max_length - 1) }

USER_ID == <<"user123">>

\* the bodies of the single-client runs
Bodies ==
  {NoMessage}
    \cup {Body(m, <<>>) : m \in ShortMessages \cup LongMessages}
    \cup {Body(m, USER_ID) : m \in {<<"O", "l", "á">>, <<>>}}

\* the draws of random.random() and the clock instants of the runs that
\* count time in half seconds: delays of 0.5 s and 1.0 s
CoarseDraws == {0, half_second}
CoarseTimes == {k * half_second : k \in 0..(MaxArrival + 2)}

\* the bodies of the concurrent runs
ConcBodies ==
  { Body(<<"O", "i">>, <<>>),
    Body(<<" ", "X", "7", "?", " ">>, USER_ID),
    Body(<<"!">>, <<>>) }

\* the draws, the clock instants, the clients and the bodies of the runs
\* that count time in ticks: delays of 0.5 s, of one tick more and of one
\* tick less than 1.5 s; the clock is read at the arrivals, at the end of
\* each delay and one tick later
FineDraws == {0, 1, 2 * half_second - 1}
ArrivalTimes == {k * half_second : k \in 0..MaxArrival}
FineTimes ==
  ArrivalTimes
    \cup {a + half_second + x + l : a \in ArrivalTimes, x \in FineDraws, l \in 0..1}
TimedClients == {1, 2}
TimedBodies == {Body(<<"O", "i">>, <<>>), Body(<<"O", "i", "?">>, USER_ID)}

\* the bodies of the runs of two clients that compare their answers: the
\* same greeting with and without padding and user_id, a question, and a
\* message that only the random fallback answers
PairBodies ==
  { Body(<<"O", "i">>, <<>>),
    Body(<<" ", "O", "i", "\t">>, USER_ID),
    Body(<<"X", "7", "?">>, <<>>),
    Body(<<"X", "7", "?", " ">>, USER_ID),
    Body(<<"X", "7">>, <<>>),
    Body(<<"X", "7">>, USER_ID) }

---------------------------------------------------------------------------
(* validation_examples.py: the manual validator and POST /chat/v2.         *)

\* 1000 (line 84)
manual_max_length == 1000

\* forbidden_words (line 91)
forbidden_words == {<<"s", "p", "a", "m">>, <<"h", "a", "c", "k">>}

\* a manual validator that tests the 1000-character bound before strip()
validate_message_manual_raw_length(message) ==
  IF message = <<>> THEN <<FALSE, "Mensagem não pode estar vazia">>
  ELSE IF Len(message) > manual_max_length
    THEN <<FALSE, "Mensagem muito longa (máximo 1000 caracteres)">>
  ELSE LET stripped == strip(message)
       IN  IF Len(stripped) < 1 THEN <<FALSE, "Mensagem muito curta">>
           ELSE IF ~any_isalnum(stripped)
             THEN <<FALSE, "Mensagem deve conter pelo menos um caractere alfanumérico">>
           ELSE IF \E word \in forbidden_words : contains(lower(stripped), word)
             THEN <<FALSE, "Mensagem contém conteúdo proibido">>
           ELSE <<TRUE, "">>

\* validate_message_manual (lines 69-95): the pair (is_valid, error_message)
validate_message_manual(message) ==
  IF message = <<>> THEN <<FALSE, "Mensagem não pode estar vazia">>
  ELSE LET stripped == strip(message)
       IN  IF Len(stripped) < 1 THEN <<FALSE, "Mensagem muito curta">>
           ELSE IF Len(stripped) > manual_max_length
             THEN <<FALSE, "Mensagem muito longa (máximo 1000 caracteres)">>
           ELSE IF ~any_isalnum(stripped)
             THEN <<FALSE, "Mensagem deve conter pelo menos um caractere alfanumérico">>
           ELSE IF \E word \in forbidden_words : contains(lower(stripped), word)
             THEN <<FALSE, "Mensagem contém conteúdo proibido">>
           ELSE <<TRUE, "">>

\* "Mensagem validada: " (line 171)
VALIDATED_PREFIX ==
  <<"M", "e", "n", "s", "a", "g", "e", "m", " ", "v", "a", "l", "i", "d",
    "a", "d", "a", ":", " ">>

\* HTTPException(status_code=400, detail=error_msg) (lines 166-169)
HTTPException(error_msg) ==
  [status |-> 400, detail |-> error_msg, reply |-> <<>>, timestamp |-> <<>>,
   message_length |-> <<>>, processing_time |-> <<>>]

\* {"reply": f"Mensagem validada: {message}"} (line 171), answered with 200
ManualReply(message) ==
  [status |-> 200, detail |-> "", reply |-> VALIDATED_PREFIX \o message,
   timestamp |-> <<>>, message_length |-> <<>>, processing_time |-> <<>>]

\* POST /chat/v2 with a body b of B (lines 158-171): a request without the
\* required body is answered 422 by FastAPI before the handler runs
chat_with_manual_validation(r, B) ==
  /\ pc[r] = "idle"
  /\ \E b \in B :
       /\ body' = [body EXCEPT ![r] = b]
       /\ response' = [response EXCEPT ![r] =
            IF ~b.has_message THEN ValidationErrorResponse(MissingField)
            ELSE LET result == validate_message_manual(b.message)
                 IN  IF ~result[1] THEN HTTPException(result[2])
                     ELSE ManualReply(b.message)]
  /\ pc' = [pc EXCEPT ![r] = "done"]
  /\ UNCHANGED <<now, request, locals, bot_responses>>

\* the word fragments of the messages sent to /chat/v2
ManualWords ==
  { <<"s", "p", "a", "m">>, <<"S", "p", "A">>, <<"m">>, <<"H", "a", "C", "k">>,
    <<"h", "a", "c">>, <<"X", "7">>, <<"!">>, <<" ">> }

RECURSIVE ManualWordSeqs(_)
\* the concatenations of at most n of these fragments
ManualWordSeqs(n) ==
  IF n = 0 THEN {<<>>}
  ELSE LET shorter == ManualWordSeqs(n - 1)
       IN  shorter \cup {m \o w : m \in shorter, w \in ManualWords}

\* the bodies sent to /chat/v2: short messages with and without surrounding
\* whitespace, messages around the length limit, and no body
ManualBodies ==
  {NoMessage}
    \cup {Body(l \o m \o t, <<>>) :
            l \in LeadPads, m \in ManualWordSeqs(MaxWords), t \in TrailPads}
    \cup {Body(m, <<>>) : m \in LongMessages}
    \cup {Body(m, <<>>) :
            m \in { Rep(" ", manual_max_length) \o <<"X">>,
                    <<"\t">> \o Rep("a", manual_max_length - 4)
                      \o <<"S", "P", "A", "M", "\n">>,
                    Rep("7", manual_max_length + 1) \o <<" ">> }}

---------------------------------------------------------------------------
(* Specifications.                                                         *)

\* one client, every input
Next ==
  \/ PostRejected(1, Bodies)
  \/ PostAccepted(1, Bodies, CoarseDraws)
  \/ Tick(CoarseTimes)
  \/ ChatResume(1)

Spec == Init /\ [][Next]_vars

\* NumReq concurrent clients
NextConc ==
  \/ \E r \in Req : PostRejected(r, ConcBodies)
  \/ \E r \in Req : PostAccepted(r, ConcBodies, CoarseDraws)
  \/ Tick(CoarseTimes)
  \/ \E r \in Req : ChatResume(r)

ConcSpec == Init /\ [][NextConc]_vars

\* the event loop runs every coroutine that is ready, and time passes
\* two concurrent clients, time counted in ticks
NextTimed ==
  \/ \E r \in TimedClients : PostAccepted(r, TimedBodies, FineDraws)
  \/ Tick(FineTimes)
  \/ \E r \in TimedClients : ChatResume(r)

TimedSpec == Init /\ [][NextTimed]_vars

\* two concurrent clients whose answers are compared
NextPair ==
  \/ \E r \in TimedClients : PostAccepted(r, PairBodies, CoarseDraws)
  \/ Tick(CoarseTimes)
  \/ \E r \in TimedClients : ChatResume(r)

PairSpec == Init /\ [][NextPair]_vars

\* one client of /chat/v2, every input
NextManual == chat_with_manual_validation(1, ManualBodies)

ManualSpec == Init /\ [][NextManual]_vars

FairSpec ==
  /\ ConcSpec
  /\ WF_vars(Tick(CoarseTimes))
  /\ \A r \in Req : WF_vars(ChatResume(r))

---------------------------------------------------------------------------
(* Properties.                                                             *)

\* request r was accepted: chat() was entered (it may have returned)
Accepted(r) == pc[r] = "sleeping" \/ response[r].status = 200
\* request r was answered
Answered(r) == pc[r] = "done"
\* request r was answered 422 with error kind e
RejectedWith(r, e) ==
  pc[r] = "done" /\ response[r].status = 422 /\ response[r].detail = e
\* the raw message of request r (the empty string until r is posted)
Raw(r) == body[r].message
\* s has no character other than whitespace (the empty string included)
OnlyWhitespace(s) == \A i \in 1..Len(s) : s[i] \in Whitespace
\* s has an alphanumeric character
HasAlnum(s) == \E i \in 1..Len(s) : s[i] \in Letters \cup DigitChars
\* v is s without its leading and trailing whitespace, the rest untouched
IsTrimOf(v, s) ==
  /\ v # <<>>
  /\ v[1] \notin Whitespace
  /\ v[Len(v)] \notin Whitespace
  /\ \E i \in 1..Len(s) :
       /\ i + Len(v) - 1 <= Len(s)
       /\ SubSeq(s, i, i + Len(v) - 1) = v
       /\ \A j \in 1..(i - 1) : s[j] \in Whitespace
       /\ \A j \in (i + Len(v))..Len(s) : s[j] \in Whitespace

\* C1: every message accepted and handed to chat() (request.message, and
\* the handler's local `message`) has no leading or trailing whitespace, is
\* non-empty, has an alphanumeric character, and has 1..1000 characters.
C1_AcceptedMessageClean ==
  \A r \in Req :
    Accepted(r) =>
      LET m == request[r].message
      IN  /\ m # <<>>
          /\ m[1] \notin Whitespace
          /\ m[Len(m)] \notin Whitespace
          /\ HasAlnum(m)
          /\ Len(m) >= 1
          /\ Len(m) <= 1000
          /\ pc[r] = "sleeping" => locals[r].message = m

\* C1 witness: a message sent with surrounding whitespace is in the handler
C1_Witness ==
  \E r \in Req :
    /\ pc[r] = "sleeping"
    /\ Raw(r)[1] \in Whitespace
    /\ Raw(r)[Len(Raw(r))] \in Whitespace
    /\ Len(Raw(r)) > Len(request[r].message)

\* C2: a message whose raw length exceeds 1000 is answered 422 with TooLong,
\* whatever its content.
C2_TooLongRejected ==
  \A r \in Req :
    (pc[r] # "idle" /\ body[r].has_message /\ Len(Raw(r)) > 1000) =>
      RejectedWith(r, TooLong)

\* C2 witness: a message of raw length above 1000 whose trimmed form is valid
\* and has at most 1000 characters was rejected
C2_Witness ==
  \E r \in Req :
    /\ RejectedWith(r, TooLong)
    /\ Len(Raw(r)) > 1000
    /\ HasAlnum(Raw(r))
    /\ Raw(r)[1] \in Whitespace
    /\ Raw(r)[Len(Raw(r))] \in Whitespace
    /\ Len(Raw(r)) - 2 <= 1000

\* C3 as claimed: the empty string and every whitespace-only message are
\* answered 422 with EmptyMessage, and a body without the message field with
\* MissingField.
C3_Original ==
  \A r \in Req :
    pc[r] # "idle" =>
      /\ (body[r].has_message /\ OnlyWhitespace(Raw(r))) => RejectedWith(r, EmptyMessage)
      /\ ~body[r].has_message => RejectedWith(r, MissingField)

\* C3 amended: a whitespace-only message of raw length 1..1000 is answered
\* 422 with EmptyMessage; the empty string is answered 422 with the
\* min_length error (string_too_short), a whitespace-only message of raw
\* length above 1000 with TooLong (422), and a body without the message
\* field with MissingField (422).
C3_EmptyRejected ==
  \A r \in Req :
    pc[r] # "idle" =>
      /\ ~body[r].has_message => RejectedWith(r, MissingField)
      /\ (body[r].has_message /\ Raw(r) = <<>>) => RejectedWith(r, TooShort)
      /\ (body[r].has_message /\ OnlyWhitespace(Raw(r))
            /\ Len(Raw(r)) >= 1 /\ Len(Raw(r)) <= 1000) =>
           RejectedWith(r, EmptyMessage)
      /\ (body[r].has_message /\ OnlyWhitespace(Raw(r)) /\ Len(Raw(r)) > 1000) =>
           RejectedWith(r, TooLong)

\* C3 witness: a whitespace-only message was rejected by the validator
C3_Witness ==
  \E r \in Req :
    /\ RejectedWith(r, EmptyMessage)
    /\ Len(Raw(r)) >= 1
    /\ OnlyWhitespace(Raw(r))

\* C4 as claimed: every message with no alphanumeric character (and some
\* character that is not whitespace) is answered 422 with
\* NoAlphanumericContent.
C4_Original ==
  \A r \in Req :
    (pc[r] # "idle" /\ body[r].has_message
       /\ ~OnlyWhitespace(Raw(r)) /\ ~HasAlnum(Raw(r))) =>
      RejectedWith(r, NoAlphanumericContent)

\* C4 amended: every message of raw length at most 1000 with no alphanumeric
\* character (and some character that is not whitespace) is answered 422
\* with NoAlphanumericContent; above 1000 the answer is TooLong (C2).
C4_NoAlnumRejected ==
  \A r \in Req :
    (pc[r] # "idle" /\ body[r].has_message
       /\ ~OnlyWhitespace(Raw(r)) /\ ~HasAlnum(Raw(r))) =>
      IF Len(Raw(r)) <= 1000
        THEN RejectedWith(r, NoAlphanumericContent)
        ELSE RejectedWith(r, TooLong)

\* C4 witness: punctuation with surrounding whitespace was rejected
C4_Witness ==
  \E r \in Req :
    /\ RejectedWith(r, NoAlphanumericContent)
    /\ Raw(r)[1] \in Whitespace
    /\ Raw(r)[Len(Raw(r))] \in Whitespace

\* C5: a message of raw length 1..1000 with an alphanumeric character is
\* accepted, the validated message is the raw one without its leading and
\* trailing whitespace (inner whitespace kept), and validating the
\* validated message again returns it unchanged.
C5_ValidTrimmedIdempotent ==
  \A r \in Req :
    (pc[r] # "idle" /\ body[r].has_message
       /\ Len(Raw(r)) >= 1 /\ Len(Raw(r)) <= 1000 /\ HasAlnum(Raw(r))) =>
      /\ Accepted(r)
      /\ IsTrimOf(request[r].message, Raw(r))
      /\ LET again == ChatRequest(Body(request[r].message, request[r].user_id))
         IN  again.ok /\ again.message = request[r].message

\* C5 witness: an accepted message had surrounding and inner whitespace
C5_Witness ==
  \E r \in Req :
    /\ Accepted(r)
    /\ Raw(r)[1] \in Whitespace
    /\ Raw(r)[Len(Raw(r))] \in Whitespace
    /\ \E i \in 1..Len(request[r].message) : request[r].message[i] \in Whitespace

\* the keyword rules of the ladder, as stated: substring tests on the
\* lower-cased message L
Rule1(L) == contains(L, <<"o", "l", "á">>) \/ contains(L, <<"o", "i">>)
Rule2(L) == contains(L, <<"c", "o", "m", "o", " ", "v", "a", "i">>)
Rule3(L) ==
  contains(L, <<"t", "c", "h", "a", "u">>) \/ contains(L, <<"a", "d", "e", "u", "s">>)
Rule4(L) == contains(L, <<"a", "j", "u", "d", "a">>)
Rule5(m) == \E i \in 1..Len(m) : m[i] = "?"
NoKeyword(L) == ~Rule1(L) /\ ~Rule2(L) /\ ~Rule3(L) /\ ~Rule4(L)
QuestionTemplate(m) == QUESTION_PREFIX \o m \o QUESTION_SUFFIX

\* C6: the reply of a 200 response is chosen by the first rule that matches,
\* in the order greeting, well-being, farewell, help, question template,
\* and otherwise is one of the 8 strings of BOT_RESPONSES.
C6_ReplyPriority ==
  \A r \in Req :
    response[r].status = 200 =>
      LET reply == response[r].reply
          m == request[r].message
          L == lower(m)
          r1 == Rule1(L)
          r2 == Rule2(L)
          r3 == Rule3(L)
          r4 == Rule4(L)
          r5 == Rule5(m)
      IN  /\ r1 => reply = GREETING_REPLY
          /\ (~r1 /\ r2) => reply = WELLBEING_REPLY
          /\ (~r1 /\ ~r2 /\ r3) => reply = FAREWELL_REPLY
          /\ (~r1 /\ ~r2 /\ ~r3 /\ r4) => reply = HELP_REPLY
          /\ (~r1 /\ ~r2 /\ ~r3 /\ ~r4 /\ r5) => reply = QuestionTemplate(m)
          /\ (~r1 /\ ~r2 /\ ~r3 /\ ~r4 /\ ~r5) =>
               /\ \E i \in 1..8 : reply = BOT_RESPONSES[i]
               /\ Cardinality({BOT_RESPONSES[i] : i \in 1..Len(BOT_RESPONSES)}) = 8

\* C6 witness: a message with both "oi" and "?" got the greeting
C6_Witness ==
  \E r \in Req :
    /\ response[r].status = 200
    /\ contains(lower(request[r].message), <<"o", "i">>)
    /\ Rule5(request[r].message)
    /\ response[r].reply = GREETING_REPLY

\* C7: a validated message with "?" and none of the keywords is answered
\* with the question template around the validated message itself (trimmed,
\* in its original letter case), and the reply mentions "pergunta" or
\* "tópico".
C7_QuestionTemplate ==
  \A r \in Req :
    (response[r].status = 200 /\ Rule5(request[r].message)
       /\ NoKeyword(lower(request[r].message))) =>
      LET reply == response[r].reply
          m == request[r].message
      IN  /\ IsTrimOf(m, Raw(r))
          /\ reply = QUESTION_PREFIX \o m \o QUESTION_SUFFIX
          /\ SubSeq(reply, Len(QUESTION_PREFIX) + 1, Len(QUESTION_PREFIX) + Len(m)) = m
          /\ \/ contains(lower(reply), <<"p", "e", "r", "g", "u", "n", "t", "a">>)
             \/ contains(lower(reply), <<"t", "ó", "p", "i", "c", "o">>)

\* C7 witness: a question with an upper-case letter, sent with surrounding
\* whitespace, got the question template
C7_Witness ==
  \E r \in Req :
    /\ response[r].status = 200
    /\ response[r].reply = QuestionTemplate(request[r].message)
    /\ lower(request[r].message) # request[r].message
    /\ Len(Raw(r)) > Len(request[r].message)

C9_NonBlocking ==
  \A r \in Req, q \in Req :
    (r # q /\ pc[q] = "sleeping") =>
      /\ (pc[r] = "idle" /\ now <= MaxArrival * half_second) =>
           ENABLED PostAccepted(r, ConcBodies, CoarseDraws)
      /\ (pc[r] = "sleeping" /\ now >= locals[r].start_time + locals[r].delay) =>
           ENABLED ChatResume(r)

\* C9 witness: q was accepted after r, and has returned its 200 response
\* while r is still suspended in its sleep
C9_Witness ==
  \E r \in Req, q \in Req :
    /\ r # q
    /\ pc[r] = "sleeping"
    /\ now <= locals[r].start_time + locals[r].delay
    /\ response[q].status = 200
    /\ response[q].processing_time[1] < round3(now - locals[r].start_time)

\* a complete 200 response
Complete200(r) ==
  /\ pc[r] = "done"
  /\ response[r].status = 200
  /\ response[r].reply # <<>>
  /\ response[r].timestamp # <<>>
  /\ response[r].timestamp[Len(response[r].timestamp)] = "Z"
  /\ Len(response[r].message_length) = 1
  /\ Len(response[r].processing_time) = 1

\* C10: a request whose message passed validation eventually completes with
\* a 200 response that has a non-empty reply, a timestamp ending in "Z",
\* message_length and processing_time; it never gets an error answer, and
\* its answer, once given, is never replaced by another.
C10_Total ==
  /\ \A r \in Req : (pc[r] = "sleeping") ~> Complete200(r)
  /\ [](\A r \in Req : (ChatRequest(body[r]).ok /\ pc[r] = "done") => Complete200(r))
  /\ [][\A r \in Req : pc[r] = "done" => (pc'[r] = "done" /\ response'[r] = response[r])]_vars

\* C10 witness: a validated request has completed with its 200 response
C10_Witness ==
  \E r \in Req :
    /\ ChatRequest(body[r]).ok
    /\ Complete200(r)
    /\ locals[r] = NoLocals

\* the body of request r is a valid ChatRequest: it has a message of raw
\* length 1..1000 with an alphanumeric character
ValidBody(r) ==
  /\ body[r].has_message
  /\ Len(Raw(r)) >= 1
  /\ Len(Raw(r)) <= 1000
  /\ HasAlnum(Raw(r))

\* C11: a posted request whose body fails validation is answered 422 and
\* never enters chat(): it is never sleeping, has no validated request, no
\* handler locals and no ChatResponse field; a posted request is answered
\* 422 if and only if its validation failed.
C11_ValidationFirst ==
  \A r \in Req :
    pc[r] # "idle" =>
      /\ ~ValidBody(r) =>
           /\ pc[r] = "done"
           /\ response[r].status = 422
           /\ request[r] = NoRequest
           /\ locals[r] = NoLocals
           /\ response[r].reply = <<>>
           /\ response[r].timestamp = <<>>
           /\ response[r].message_length = <<>>
           /\ response[r].processing_time = <<>>
      /\ ValidBody(r) => (Accepted(r) /\ response[r].status # 422)
      /\ response[r].status = 422 <=> (pc[r] = "done" /\ ~ValidBody(r))

\* C11 witness: a request that failed validation was answered 422 and time
\* went on without any handler state for it
C11_Witness ==
  \E r \in Req :
    /\ ~ValidBody(r)
    /\ response[r].status = 422
    /\ response[r].detail # ""
    /\ now > 0

\* chat() returns to client r in this step
Returns(r) == pc[r] = "sleeping" /\ pc'[r] = "done"

\* the reported processing_time of the answer of this step, in milliseconds
Reported(r) == response'[r].processing_time[1]

\* line 109 of this step: the unrounded time.time() - start_time, in ticks
Elapsed(r) == now - locals[r].start_time

\* the delay of r is at least 0.5 s and below 1.5 s
DelayInRange(r) ==
  /\ locals[r].delay >= half_second
  /\ locals[r].delay < 3 * half_second

\* C12 as stated: the reported processing_time is strictly positive and
\* never less than the delay of the request, which is at least 0.5 s and
\* below 1.5 s
C12_Original ==
  [][\A r \in Req :
       Returns(r) =>
         /\ Reported(r) > 0
         /\ Reported(r) * TicksPerMs >= locals[r].delay
         /\ DelayInRange(r)]_vars

\* C12: when chat() returns, the time elapsed since its entry is never less
\* than the delay of the request, which is at least 0.5 s and below 1.5 s,
\* whatever the other requests do; the reported processing_time is that
\* elapsed time rounded to the nearest millisecond: it is strictly positive,
\* at least 0.5 s, and falls short of the delay by at most half a millisecond
C12_ProcessingTime ==
  [][\A r \in Req :
       Returns(r) =>
         /\ DelayInRange(r)
         /\ Elapsed(r) >= locals[r].delay
         /\ response'[r].status = 200
         /\ 2 * (Reported(r) * TicksPerMs - Elapsed(r)) <= TicksPerMs
         /\ 2 * (Elapsed(r) - Reported(r) * TicksPerMs) <= TicksPerMs
         /\ Reported(r) > 0
         /\ Reported(r) >= HALF_SECOND_MS
         /\ 2 * (locals[r].delay - Reported(r) * TicksPerMs) <= TicksPerMs]_vars

\* a request that entered at time 0 and returned one tick after 0.5 s is
\* answered with processing_time 0.5 s while another request sleeps
C12_Witness ==
  \E r, q \in Req :
    /\ r # q
    /\ pc[r] = "done"
    /\ response[r].status = 200
    /\ response[r].timestamp = isoformat(half_second + 1) \o <<"Z">>
    /\ response[r].processing_time = <<HALF_SECOND_MS>>
    /\ pc[q] = "sleeping"
    /\ locals[q].start_time = 0

\* the validated message of r is answered by one of rules 1-5
RuleMatches(r) ==
  ~NoKeyword(lower(request[r].message)) \/ Rule5(request[r].message)

\* C13: no request modifies the reply pool; message_length is the length of
\* the request's own validated message; a message no rule matches is
\* answered with a string of the pool; and two requests with the same
\* validated message get the same message_length and, when one of rules 1-5
\* matches, the same reply, whatever their user_id, raw padding, draws and
\* order of execution
C13_NoSharedState ==
  /\ bot_responses = BOT_RESPONSES
  /\ \A r \in Req :
       response[r].status = 200 =>
         /\ response[r].message_length = <<Len(request[r].message)>>
         /\ ~RuleMatches(r) =>
              \E i \in 1..Len(BOT_RESPONSES) : response[r].reply = BOT_RESPONSES[i]
         /\ \A q \in Req :
              (response[q].status = 200 /\ request[q].message = request[r].message) =>
                /\ response[q].message_length = response[r].message_length
                /\ RuleMatches(r) => response[q].reply = response[r].reply

\* two requests with the same validated question, sent with different raw
\* padding and user_id and answered at different times, got the same reply,
\* and the pool is intact
C13_Witness ==
  \E r, q \in Req :
    /\ r # q
    /\ response[r].status = 200
    /\ response[q].status = 200
    /\ request[r].message = request[q].message
    /\ Rule5(request[r].message)
    /\ body[r].message # body[q].message
    /\ request[r].user_id # request[q].user_id
    /\ response[r].timestamp # response[q].timestamp
    /\ response[r].reply = response[q].reply
    /\ bot_responses = BOT_RESPONSES

\* the number of whitespace characters s starts with and ends with
LeadingBlanks(s) ==
  Cardinality({i \in 1..Len(s) : \A j \in 1..i : s[j] \in Whitespace})
TrailingBlanks(s) ==
  Cardinality({i \in 1..Len(s) : \A j \in i..Len(s) : s[j] \in Whitespace})
\* the length of s without its leading and trailing whitespace
TrimmedLength(s) ==
  IF OnlyWhitespace(s) THEN 0 ELSE Len(s) - LeadingBlanks(s) - TrailingBlanks(s)
\* s contains the word written lo in lower case and up in upper case, in
\* any mix of the two cases
HasWord(s, lo, up) ==
  \E i \in 1..(Len(s) - Len(lo) + 1) :
    \A k \in 1..Len(lo) : s[i + k - 1] \in {lo[k], up[k]}
\* what the manual validator is to accept
ManuallyValid(s) ==
  /\ s # <<>>
  /\ TrimmedLength(s) >= 1
  /\ TrimmedLength(s) <= 1000
  /\ HasAlnum(s)
  /\ ~HasWord(s, <<"s", "p", "a", "m">>, <<"S", "P", "A", "M">>)
  /\ ~HasWord(s, <<"h", "a", "c", "k">>, <<"H", "A", "C", "K">>)

\* C14: validate_message_manual returns (True, "") exactly for a non-empty
\* message whose trimmed form has 1 to 1000 characters, has an alphanumeric
\* character and has neither "spam" nor "hack" in any letter case, and
\* otherwise (False, reason) with a non-empty reason; /chat/v2 answers 400,
\* with that reason, exactly then; a message it accepts with more than 1000
\* raw characters is rejected by ChatRequest as too long
C14_ManualValidator ==
  \A r \in Req :
    pc[r] = "done" =>
      LET raw == Raw(r)
          result == validate_message_manual(raw)
          good == ManuallyValid(raw)
      IN  /\ body[r].has_message <=> response[r].status \in {200, 400}
          /\ body[r].has_message =>
               /\ good <=> result = <<TRUE, "">>
               /\ ~good <=> (result[1] = FALSE /\ result[2] # "")
               /\ response[r].status = 400 <=> ~good
               /\ response[r].status = 400 => response[r].detail = result[2]
               /\ response[r].status = 200 =>
                    response[r].reply = VALIDATED_PREFIX \o raw
               /\ (good /\ Len(raw) > 1000) =>
                    /\ ~ChatRequest(body[r]).ok
                    /\ ChatRequest(body[r]).error = TooLong

\* a message of more than 1000 raw characters whose trimmed form has 1000
\* was accepted by /chat/v2
C14_Witness ==
  \E r \in Req :
    /\ pc[r] = "done"
    /\ response[r].status = 200
    /\ Len(Raw(r)) > 1000
    /\ TrimmedLength(Raw(r)) = 1000
    /\ response[r].reply = VALIDATED_PREFIX \o Raw(r)

============================================================================
